---------------------------- MODULE Spec2Model ----------------------------
(***************************************************************************)
(* A repeated second-price ad auction (Auction, User: src/test_auction.py) *)
(* between Thompson-sampling bidders (Bidder: src/bidder.py).              *)
(*                                                                         *)
(* Money is counted in thousandths: Bidder.bid rounds its bid to three     *)
(* decimals, so every bid, price and balance is a whole number of          *)
(* thousandths (0.26 is 260, the reward of 1 per click is 1000, the        *)
(* bankruptcy limit of -1000 is -1000000).  Arithmetic is exact; the       *)
(* rounding error of Python's binary floats is not modelled.               *)
(* Probabilities and Beta samples are counted in thousandths as well.      *)
(* User ids are 0-based as in the code.                                    *)
(***************************************************************************)
EXTENDS Integers, Sequences, FiniteSets, TLC

VARIABLES
    users,          \* Auction.users: the click probability of each user
    bidders,        \* Auction.bidders: the list of active bidders
    balances,       \* Auction.balances: bidder -> balance
    history,        \* Auction.history: the list of round records
    user_stats,     \* Bidder.user_stats of each bidder: user id -> statistics
    round_counter,  \* Bidder.round_counter of each bidder
    raised,         \* the exception the last call ended with, "none" if it returned
    calls           \* the bid and notify calls the last execute_round made, in order

vars == <<users, bidders, balances, history, user_stats, round_counter, raised, calls>>

---------------------------------------------------------------------------
(* Bounds of the model *)

\* rounds executed from the initial state of a specification
MaxRounds == 2
\* direct bid calls per bidder in SpecBidder
MaxCalls == 2
\* direct winning notify calls per (bidder, user) in SpecBidder
MaxViews == 2

\* the bidder lists an Auction is constructed with: sequences of distinct bidders
BidderLists == {<< >>, <<1>>, <<1, 2>>, <<2, 1>>}
\* the user lists an Auction is constructed with (User._probability, thousandths)
UserLists == {<<1000>>, <<0>>, <<500, 0>>}
\* values np.random.beta returns (thousandths): a low and a high one, whatever
\* the parameters of the distribution are
SampleValues == {3, 997}
\* values np.random.uniform(-0.01, 0.01) returns (millionths, in [-0.01, 0.01))
NoiseValues == {-10000, 9600}
\* values random.random() returns in User.show_ad (thousandths, in [0, 1))
RandomDraws == {0, 999}
\* the clicked argument of notify: a bool, or None for a loser
ClickedValues == {"True", "False", "None"}
\* the price argument of direct notify calls
PriceValues == {260}

---------------------------------------------------------------------------
(* Program constants *)

\* thousandths per unit: round(..., 3)
Scale == 1000
\* the reward per click, in units
ClickReward == 1
\* a winner whose balance is below this many units is disqualified
BankruptcyLimit == -1000
\* bid = sampled_ctr * 0.25 + noise: millionths of bid per thousandth of ctr
BidShare == 250

---------------------------------------------------------------------------
(* Helpers *)

Range(s) == {s[i] : i \in DOMAIN s}

Max(a, b) == IF a >= b THEN a ELSE b

RECURSIVE Gcd(_, _)
Gcd(a, b) == IF b = 0 THEN a ELSE Gcd(b, a % b)

\* a plausible slip: integer division (clicks // views)
RatioFloor(n, d) == [num |-> n \div d, den |-> 1]

\* the quotient n/d as a fraction in lowest terms (d > 0)
Ratio(n, d) == LET g == Gcd(n, d) IN [num |-> n \div g, den |-> d \div g]

\* round(x, 3) of a value given in millionths, to thousandths, ties to even
Round3(x) ==
    LET q == x \div 1000
        r == x % 1000
    IN  IF r < 500 THEN q
        ELSE IF r > 500 THEN q + 1
        ELSE IF q % 2 = 0 THEN q ELSE q + 1

---------------------------------------------------------------------------
(* Bidder *)

\* Bidder.__init__: the statistics of a bidder constructed for num_users users
InitStats(num_users) ==
    [u \in 0 .. num_users - 1 |->
        [clicks |-> 0, views |-> 0, ctr |-> [num |-> 1, den |-> 2],
         ucb_value |-> [inf |-> TRUE, sample |-> 0, round |-> 0, views |-> 0]]]

Alpha(stat) == stat.clicks + 1
Beta(stat) == stat.views - stat.clicks + 1

\* the stored confidence bound: infinite, or the finite score
\* sampled_ctr + (1/log1p(round_counter)) * sqrt(2*log(round_counter)/views),
\* kept as the three numbers that determine it
UcbValue(stat, rc, sampled_ctr) ==
    IF stat.views = 0
    THEN [inf |-> TRUE, sample |-> 0, round |-> 0, views |-> 0]
    ELSE [inf |-> FALSE, sample |-> sampled_ctr, round |-> rc, views |-> stat.views]

\* the amount bid returns for a Beta sample and a noise draw
BidAmount(sampled_ctr, noise) == Max(0, Round3(sampled_ctr * BidShare + noise))

\* a plausible slip: the impression is counted when the bid is made
BidCallCountsView(stats, rc, user_id, sampled_ctr, noise) ==
    LET rc1 == rc + 1 IN
    IF user_id \notin DOMAIN stats
    THEN [raised |-> "KeyError", round_counter |-> rc1, user_stats |-> stats,
          amount |-> 0]
    ELSE [raised |-> "none", round_counter |-> rc1,
          user_stats |-> [stats EXCEPT ![user_id].ucb_value =
                              UcbValue(stats[user_id], rc1, sampled_ctr),
                                       ![user_id].views = @ + 1],
          amount |-> BidAmount(sampled_ctr, noise)]

\* Bidder.bid(user_id) on a bidder with statistics stats and round counter rc,
\* when np.random.beta returns sampled_ctr and np.random.uniform returns noise
BidCall(stats, rc, user_id, sampled_ctr, noise) ==
    LET rc1 == rc + 1 IN
    IF user_id \notin DOMAIN stats
    THEN [raised |-> "KeyError", round_counter |-> rc1, user_stats |-> stats,
          amount |-> 0]
    ELSE IF Alpha(stats[user_id]) <= 0 \/ Beta(stats[user_id]) <= 0
    THEN [raised |-> "ValueError", round_counter |-> rc1, user_stats |-> stats,
          amount |-> 0]
    ELSE [raised |-> "none", round_counter |-> rc1,
          user_stats |-> [stats EXCEPT ![user_id].ucb_value =
                              UcbValue(stats[user_id], rc1, sampled_ctr)],
          amount |-> BidAmount(sampled_ctr, noise)]

\* a plausible slip: the auction_winner test is missing, losers learn too
NotifyCallUncensored(stats, auction_winner, price, clicked, user_id) ==
    IF user_id \notin DOMAIN stats
    THEN [raised |-> "KeyError", user_stats |-> stats]
    ELSE LET views == stats[user_id].views + 1
             clicks == stats[user_id].clicks + (IF clicked = "True" THEN 1 ELSE 0)
         IN  [raised |-> "none",
              user_stats |-> [stats EXCEPT ![user_id].views = views,
                                           ![user_id].clicks = clicks,
                                           ![user_id].ctr = Ratio(clicks, views)]]

\* a plausible slip: a click is counted instead of a view, not on top of it
NotifyCallClickOrView(stats, auction_winner, price, clicked, user_id) ==
    IF ~auction_winner
    THEN [raised |-> "none", user_stats |-> stats]
    ELSE IF user_id \notin DOMAIN stats
    THEN [raised |-> "KeyError", user_stats |-> stats]
    ELSE LET views == stats[user_id].views + (IF clicked = "True" THEN 0 ELSE 1)
             clicks == stats[user_id].clicks + (IF clicked = "True" THEN 1 ELSE 0)
         IN  [raised |-> "none",
              user_stats |-> [stats EXCEPT ![user_id].views = views,
                                           ![user_id].clicks = clicks,
                                           ![user_id].ctr =
                                               IF views = 0 THEN @
                                               ELSE Ratio(clicks, views)]]

\* Bidder.notify(auction_winner, price, clicked, user_id)
NotifyCall(stats, auction_winner, price, clicked, user_id) ==
    IF ~auction_winner
    THEN [raised |-> "none", user_stats |-> stats]
    ELSE IF user_id \notin DOMAIN stats
    THEN [raised |-> "KeyError", user_stats |-> stats]
    ELSE LET views == stats[user_id].views + 1
             clicks == stats[user_id].clicks + (IF clicked = "True" THEN 1 ELSE 0)
         IN  [raised |-> "none",
              user_stats |-> [stats EXCEPT ![user_id].views = views,
                                           ![user_id].clicks = clicks,
                                           ![user_id].ctr = Ratio(clicks, views)]]

---------------------------------------------------------------------------
(* User *)

\* a plausible slip: the comparison is turned around
ShowAdInverted(probability, draw) == draw > probability

\* User.show_ad: random.random() < self._probability
ShowAd(probability, draw) == draw < probability

---------------------------------------------------------------------------
(* Auction *)

\* a plausible slip: reverse=True is missing, the sort is ascending
\* the insertion of a sort that puts an item before the items equal to it
RECURSIVE InsertItemTiesLast(_, _)
InsertItemTiesLast(item, sorted) ==
    IF sorted = << >> THEN <<item>>
    ELSE IF Head(sorted).amount > item.amount
         THEN <<Head(sorted)>> \o InsertItemTiesLast(item, Tail(sorted))
         ELSE <<item>> \o sorted

RECURSIVE InsertItemAscending(_, _)
InsertItemAscending(item, sorted) ==
    IF sorted = << >> THEN <<item>>
    ELSE IF Head(sorted).amount <= item.amount
         THEN <<Head(sorted)>> \o InsertItemAscending(item, Tail(sorted))
         ELSE <<item>> \o sorted

\* one item of bids.items(): a bidder and its bid
\* sorted(bids.items(), key=lambda x: x[1], reverse=True): a stable sort, so
\* items with equal bids keep the order of the bid mapping
RECURSIVE InsertItem(_, _)
InsertItem(item, sorted) ==
    IF sorted = << >> THEN <<item>>
    ELSE IF Head(sorted).amount >= item.amount
         THEN <<Head(sorted)>> \o InsertItem(item, Tail(sorted))
         ELSE <<item>> \o sorted

RECURSIVE SortedBids(_)
SortedBids(items) ==
    IF items = << >> THEN << >>
    ELSE InsertItem(items[Len(items)], SortedBids(SubSeq(items, 1, Len(items) - 1)))

\* a plausible slip: a first-price auction, the winner pays its own bid
FirstPrice(sorted_bids) == sorted_bids[1].amount

\* second_price = sorted_bids[1][1] if len(sorted_bids) > 1 else 0
SecondPrice(sorted_bids) ==
    IF Len(sorted_bids) > 1 THEN sorted_bids[2].amount ELSE 0

\* the settlement with the reward paid whether or not the user clicked
SettleAlwaysRewards(bal, winner, second_price, clicked) ==
    [bal EXCEPT ![winner] = @ - second_price + ClickReward * Scale]

\* the settlement with the price credited instead of charged
SettleCredits(bal, winner, second_price, clicked) ==
    LET paid == [bal EXCEPT ![winner] = @ + second_price]
    IN  IF clicked THEN [paid EXCEPT ![winner] = @ + ClickReward * Scale] ELSE paid

\* self.balances[winner] -= second_price; if clicked: self.balances[winner] += 1
Settle(bal, winner, second_price, clicked) ==
    LET paid == [bal EXCEPT ![winner] = @ - second_price]
    IN  IF clicked THEN [paid EXCEPT ![winner] = @ + ClickReward * Scale] ELSE paid

\* self.bidders.remove(winner)
Remove(list, b) == SelectSeq(list, LAMBDA x : x # b)

\* the round without its solvency check
SolvencyCheckSkipped(list, bal, winner) == list

\* the solvency check with the limit itself disqualifying
SolvencyCheckAtLimit(list, bal, winner) ==
    IF bal[winner] <= BankruptcyLimit * Scale THEN Remove(list, winner) ELSE list

\* if self.balances[winner] < -1000: self.bidders.remove(winner)
SolvencyCheck(list, bal, winner) ==
    IF bal[winner] < BankruptcyLimit * Scale THEN Remove(list, winner) ELSE list

\* the bid calls of the comprehension {bidder: bidder.bid(user_id) for bidder in
\* self.bidders}, in list order, up to and including the first that raises:
\* the state of the bidders after them, the items collected, the calls made
\* and the exception
RECURSIVE CollectBids(_, _, _, _, _, _)
CollectBids(list, stats, rc, user_id, sample, noise) ==
    IF list = << >>
    THEN [raised |-> "none", user_stats |-> stats, round_counter |-> rc,
          items |-> << >>, calls |-> << >>]
    ELSE LET b == Head(list)
             r == BidCall(stats[b], rc[b], user_id, sample[b], noise[b])
             stats1 == [stats EXCEPT ![b] = r.user_stats]
             rc1 == [rc EXCEPT ![b] = r.round_counter]
             call == [op |-> "bid", bidder |-> b, user_id |-> user_id,
                      auction_winner |-> FALSE]
         IN  IF r.raised # "none"
             THEN [raised |-> r.raised, user_stats |-> stats1, round_counter |-> rc1,
                   items |-> << >>, calls |-> <<call>>]
             ELSE LET rest == CollectBids(Tail(list), stats1, rc1, user_id, sample, noise)
                  IN  [rest EXCEPT !.items =
                          <<[bidder |-> b, amount |-> r.amount]>> \o @,
                                   !.calls = <<call>> \o @]

\* the notify loop telling every bidder that it won
RECURSIVE NotifyAllAsWinner(_, _, _, _, _, _)
NotifyAllAsWinner(items, stats, winner, second_price, clicked, user_id) ==
    IF items = << >> THEN [user_stats |-> stats, calls |-> << >>]
    ELSE LET b == Head(items).bidder
             r == NotifyCall(stats[b], TRUE, second_price,
                             IF clicked THEN "True" ELSE "False", user_id)
             call == [op |-> "notify", bidder |-> b, user_id |-> user_id,
                      auction_winner |-> TRUE]
             rest == NotifyAllAsWinner(Tail(items), [stats EXCEPT ![b] = r.user_stats],
                                       winner, second_price, clicked, user_id)
         IN  [rest EXCEPT !.calls = <<call>> \o @]

\* the notify calls of the loop over bids.items(): the statistics of the
\* bidders after them and the calls made
RECURSIVE NotifyAll(_, _, _, _, _, _)
NotifyAll(items, stats, winner, second_price, clicked, user_id) ==
    IF items = << >> THEN [user_stats |-> stats, calls |-> << >>]
    ELSE LET b == Head(items).bidder
             r == IF b = winner
                  THEN NotifyCall(stats[b], TRUE, second_price,
                                  IF clicked THEN "True" ELSE "False", user_id)
                  ELSE NotifyCall(stats[b], FALSE, second_price, "None", user_id)
             call == [op |-> "notify", bidder |-> b, user_id |-> user_id,
                      auction_winner |-> (b = winner)]
             rest == NotifyAll(Tail(items), [stats EXCEPT ![b] = r.user_stats],
                               winner, second_price, clicked, user_id)
         IN  [rest EXCEPT !.calls = <<call>> \o @]

\* a round that raises and on its way out resets the balances
AbortedResetsBalances(st, got, exception) ==
    [st EXCEPT !.user_stats = got.user_stats,
               !.round_counter = got.round_counter,
               !.raised = exception,
               !.calls = got.calls,
               !.balances = [b \in DOMAIN st.balances |-> 0]]

\* a round that raises while the bids are collected or ranked: the bidders keep
\* what their bid calls changed, the auction is left as it was
Aborted(st, got, exception) ==
    [st EXCEPT !.user_stats = got.user_stats,
               !.round_counter = got.round_counter,
               !.raised = exception,
               !.calls = got.calls]

\* the record put in front of the earlier records
LogInFront(records, record) == <<record>> \o records

\* self.history.append(record)
Log(records, record) == Append(records, record)

\* the bid mapping of a round record: bidder -> amount
BidMapping(items) ==
    [b \in {items[i].bidder : i \in DOMAIN items} |->
        items[CHOOSE i \in DOMAIN items : items[i].bidder = b].amount]

\* Auction.execute_round on the auction and bidders of state st, when
\* random.choice picks the user with id user_id, the bid of bidder b draws
\* sample[b] and noise[b], and show_ad draws draw: the state after the call
Round(st, user_id, sample, noise, draw) ==
    LET got == CollectBids(st.bidders, st.user_stats, st.round_counter,
                           user_id, sample, noise)
    IN  IF got.raised # "none"
        THEN Aborted(st, got, got.raised)
        ELSE LET sorted_bids == SortedBids(got.items) IN
             IF sorted_bids = << >>
             THEN Aborted(st, got, "IndexError")
             ELSE LET winner == sorted_bids[1].bidder
                      winning_bid == sorted_bids[1].amount
                      second_price == SecondPrice(sorted_bids)
                      clicked == ShowAd(st.users[user_id + 1], draw)
                      bal == Settle(st.balances, winner, second_price, clicked)
                      told == NotifyAll(got.items, got.user_stats, winner,
                                        second_price, clicked, user_id)
                      record == [user_id |-> user_id,
                                 bids |-> BidMapping(got.items),
                                 winner |-> winner,
                                 winning_bid |-> winning_bid,
                                 second_price |-> second_price,
                                 clicked |-> clicked,
                                 balances |-> bal]
                  IN  [users |-> st.users,
                       bidders |-> SolvencyCheck(st.bidders, bal, winner),
                       balances |-> bal,
                       history |-> Log(st.history, record),
                       user_stats |-> told.user_stats,
                       round_counter |-> got.round_counter,
                       raised |-> "none",
                       calls |-> got.calls \o told.calls]

\* Auction.__init__(users, bidders) with bidders constructed for num_users users
NewAuction(user_list, bidder_list, num_users) ==
    [users |-> user_list,
     bidders |-> bidder_list,
     balances |-> [b \in Range(bidder_list) |-> 0],
     history |-> << >>,
     user_stats |-> [b \in Range(bidder_list) |-> InitStats(num_users[b])],
     round_counter |-> [b \in Range(bidder_list) |-> 0],
     raised |-> "none",
     calls |-> << >>]

---------------------------------------------------------------------------
(* The state machine *)

State ==
    [users |-> users, bidders |-> bidders, balances |-> balances,
     history |-> history, user_stats |-> user_stats,
     round_counter |-> round_counter, raised |-> raised, calls |-> calls]

Becomes(st) ==
    /\ users' = st.users
    /\ bidders' = st.bidders
    /\ balances' = st.balances
    /\ history' = st.history
    /\ user_stats' = st.user_stats
    /\ round_counter' = st.round_counter
    /\ raised' = st.raised
    /\ calls' = st.calls

Is(st) ==
    /\ users = st.users
    /\ bidders = st.bidders
    /\ balances = st.balances
    /\ history = st.history
    /\ user_stats = st.user_stats
    /\ round_counter = st.round_counter
    /\ raised = st.raised
    /\ calls = st.calls

\* an auction constructed by a driver: every bidder knows every user
Init ==
    \E user_list \in UserLists, bidder_list \in BidderLists :
        Is(NewAuction(user_list, bidder_list,
                      [b \in Range(bidder_list) |-> Len(user_list)]))

\* one call of Auction.execute_round
ExecuteRound ==
    \E user_id \in 0 .. Len(users) - 1,
       sample \in [Range(bidders) -> SampleValues],
       noise \in [Range(bidders) -> NoiseValues],
       draw \in RandomDraws :
        Becomes(Round(State, user_id, sample, noise, draw))

Next == Len(history) < MaxRounds /\ ExecuteRound

Spec == Init /\ [][Next]_vars

---------------------------------------------------------------------------
(* Bidders called directly, outside any auction round *)

\* the user ids a caller passes: the known ones and one unknown
UserIdArgs(stats) == 0 .. Cardinality(DOMAIN stats)

\* a call b.bid(user_id)
Bid(b, user_id, sampled_ctr, noise) ==
    LET r == BidCall(user_stats[b], round_counter[b], user_id, sampled_ctr, noise)
    IN  /\ user_stats' = [user_stats EXCEPT ![b] = r.user_stats]
        /\ round_counter' = [round_counter EXCEPT ![b] = r.round_counter]
        /\ raised' = r.raised
        /\ UNCHANGED <<users, bidders, balances, history, calls>>

\* a call b.notify(auction_winner, price, clicked, user_id)
Notify(b, auction_winner, price, clicked, user_id) ==
    LET r == NotifyCall(user_stats[b], auction_winner, price, clicked, user_id)
    IN  /\ user_stats' = [user_stats EXCEPT ![b] = r.user_stats]
        /\ raised' = r.raised
        /\ UNCHANGED <<users, bidders, balances, history, round_counter, calls>>

BidAny ==
    \E b \in DOMAIN user_stats :
    \E user_id \in UserIdArgs(user_stats[b]),
       sampled_ctr \in SampleValues, noise \in NoiseValues :
        /\ round_counter[b] < MaxCalls
        /\ Bid(b, user_id, sampled_ctr, noise)

NotifyAny ==
    \E b \in DOMAIN user_stats :
    \E auction_winner \in BOOLEAN, price \in PriceValues,
       clicked \in ClickedValues, user_id \in UserIdArgs(user_stats[b]) :
        /\ (auction_winner /\ user_id \in DOMAIN user_stats[b])
              => user_stats[b][user_id].views < MaxViews
        /\ Notify(b, auction_winner, price, clicked, user_id)

\* one bidder constructed for two users, in an auction that runs no round
InitBidder == Is(NewAuction(<<500, 0>>, <<1>>, [b \in {1} |-> 2]))

NextBidder == BidAny \/ NotifyAny

SpecBidder == InitBidder /\ [][NextBidder]_vars

---------------------------------------------------------------------------
(* An auction that has run for long: bidder 1 is close to the bankruptcy limit *)

HighBid == BidAmount(997, 9600)
LowBid == BidAmount(997, -10000)

\* n rounds for user 0 without a click in which every bidder draws the same
\* sample and noise, so that the first bidder of the list wins and pays that
\* bid; the run stops at a round that raises
RECURSIVE Rounds(_, _, _, _)
Rounds(n, st, sampled_ctr, noise_draw) ==
    IF n = 0 THEN st
    ELSE IF n = 1
    THEN Round(st, 0, [b \in Range(st.bidders) |-> sampled_ctr],
               [b \in Range(st.bidders) |-> noise_draw], 999)
    ELSE LET first == Rounds(n \div 2, st, sampled_ctr, noise_draw)
         IN  IF first.raised # "none" THEN first
             ELSE Rounds(n - n \div 2, first, sampled_ctr, noise_draw)

\* the rounds at the low and at the high bid after which bidder 1 is exactly
\* one low bid above the limit
LowRounds ==
    CHOOSE k \in 0 .. HighBid :
        /\ (-(BankruptcyLimit * Scale) - LowBid * (k + 1)) % HighBid = 0
        /\ \A j \in 0 .. k - 1 :
              (-(BankruptcyLimit * Scale) - LowBid * (j + 1)) % HighBid # 0
HighRounds == (-(BankruptcyLimit * Scale) - LowBid * (LowRounds + 1)) \div HighBid
LateRounds == HighRounds + LowRounds

\* two bidders and one user who never clicks, after those rounds
InitLate ==
    Is(Rounds(LowRounds,
              Rounds(HighRounds,
                     NewAuction(<<0>>, <<1, 2>>, [b \in {1, 2} |-> 1]),
                     997, 9600),
              997, -10000))

NextLate == Len(history) < LateRounds + MaxRounds /\ ExecuteRound

SpecLate == InitLate /\ [][NextLate]_vars

---------------------------------------------------------------------------
(* An auction over two users whose bidders were constructed for one or two *)

\* Bidder(num_users, num_rounds) is constructed apart from the auction: a
\* bidder made for one user has no statistics for user id 1
InitShort ==
    \E bidder_list \in {<< >>, <<1, 2>>} :
        \E num_users \in [Range(bidder_list) -> {1, 2}] :
            Is(NewAuction(<<500, 0>>, bidder_list, num_users))

\* a call that raises appends no record, so the calls are bounded by the
\* round counters as well
NextShort ==
    /\ Len(history) < MaxRounds
    /\ \A b \in DOMAIN round_counter : round_counter[b] < MaxRounds
    /\ ExecuteRound

SpecShort == InitShort /\ [][NextShort]_vars

---------------------------------------------------------------------------
(* Properties *)

\* the largest value of a bid mapping
Largest(bids) ==
    CHOOSE x \in {bids[b] : b \in DOMAIN bids} : \A b \in DOMAIN bids : x >= bids[b]

\* the second-largest value of a bid mapping, 0 if it holds fewer than two bids
SecondLargest(bids) ==
    IF Cardinality(DOMAIN bids) < 2 THEN 0
    ELSE LET top == CHOOSE b \in DOMAIN bids : bids[b] = Largest(bids)
         IN  Largest([b \in DOMAIN bids \ {top} |-> bids[b]])

Known(b) == DOMAIN user_stats[b]

\* the winner of record i was disqualified in round i
DisqualifiedAt(i) ==
    history[i].balances[history[i].winner] < BankruptcyLimit * Scale

\* C1: in every round record, winning_bid is the largest value of the bid
\* mapping, second_price is its second-largest value (0 with fewer than two
\* bids), and second_price <= winning_bid.
C1_SecondPrice ==
    \A i \in DOMAIN history :
        /\ history[i].winning_bid = Largest(history[i].bids)
        /\ history[i].second_price = SecondLargest(history[i].bids)
        /\ history[i].second_price <= history[i].winning_bid

\* a record of two different positive bids
C1_Witness ==
    \E i \in DOMAIN history :
        /\ Cardinality(DOMAIN history[i].bids) = 2
        /\ history[i].winning_bid > history[i].second_price
        /\ history[i].second_price > 0

\* C2: notify(False, ...) for a known user changes clicks, views and ctr of no
\* user; notify(True, price, clicked, user_id) adds 1 to views of user_id, adds
\* 1 to its clicks iff clicked is true, and changes no counter of another user.
C2_FeedbackCensoring ==
    [][\A b \in DOMAIN user_stats : \A u \in Known(b) :
        \A auction_winner \in BOOLEAN, price \in PriceValues,
           clicked \in ClickedValues :
            Notify(b, auction_winner, price, clicked, u) =>
                /\ DOMAIN user_stats'[b] = Known(b)
                /\ \A v \in Known(b) \ {u} :
                      /\ user_stats'[b][v].clicks = user_stats[b][v].clicks
                      /\ user_stats'[b][v].views = user_stats[b][v].views
                      /\ user_stats'[b][v].ctr = user_stats[b][v].ctr
                /\ IF auction_winner
                   THEN /\ user_stats'[b][u].views = user_stats[b][u].views + 1
                        /\ user_stats'[b][u].clicks =
                              user_stats[b][u].clicks
                                  + (IF clicked = "True" THEN 1 ELSE 0)
                   ELSE /\ user_stats'[b][u].views = user_stats[b][u].views
                        /\ user_stats'[b][u].clicks = user_stats[b][u].clicks
                        /\ user_stats'[b][u].ctr = user_stats[b][u].ctr]_vars

\* a bidder that was notified of a won and clicked impression of one user and
\* of a won impression without a click of another
C2_Witness ==
    \E b \in DOMAIN user_stats : \E u, v \in Known(b) :
        /\ user_stats[b][u].views = 1 /\ user_stats[b][u].clicks = 1
        /\ user_stats[b][v].views = 1 /\ user_stats[b][v].clicks = 0

\* C3: a bidder disqualified in a round appears in no later record, neither in
\* its bid mapping nor in its balance snapshot.
C3_DisqualifiedLeavesRecords ==
    \A i \in DOMAIN history :
        DisqualifiedAt(i) =>
            \A j \in i + 1 .. Len(history) :
                /\ history[i].winner \notin DOMAIN history[j].bids
                /\ history[i].winner \notin DOMAIN history[j].balances

\* C4: a completed round changes the winner's balance by minus the second-
\* largest bid of the round, plus 1 iff the round's click outcome is true, and
\* changes no other balance.
C4_Settlement ==
    [][Len(history') = Len(history) + 1 =>
        LET r == history'[Len(history')] IN
            /\ DOMAIN balances' = DOMAIN balances
            /\ r.second_price = SecondLargest(r.bids)
            /\ balances'[r.winner] =
                  balances[r.winner] - SecondLargest(r.bids)
                      + (IF r.clicked THEN ClickReward * Scale ELSE 0)
            /\ \A b \in DOMAIN balances \ {r.winner} :
                  balances'[b] = balances[b]]_vars

\* a clicked round whose winner bid more than the price it paid
C4_Witness ==
    \E i \in DOMAIN history :
        /\ history[i].clicked
        /\ history[i].winning_bid > history[i].second_price
        /\ history[i].second_price > 0

\* C5: execute_round with no active bidder fails with a no-bidders condition
\* of its own.
C5_NoBiddersCondition ==
    [][(bidders = << >> /\ ExecuteRound) => raised' = "NoBiddersError"]_vars

\* C6: notify with an unknown user_id fails with an invalid-argument condition
\* and adds no entry, whatever auction_winner and clicked are.
C6_UnknownUserRejected ==
    [][\A b \in DOMAIN user_stats : \A u \in UserIdArgs(user_stats[b]) \ Known(b) :
        \A auction_winner \in BOOLEAN, price \in PriceValues,
           clicked \in ClickedValues :
            Notify(b, auction_winner, price, clicked, u) =>
                /\ raised' = "KeyError"
                /\ DOMAIN user_stats'[b] = Known(b)]_vars

\* C7: bid(user_id) for a known user changes clicks, views and ctr of no user;
\* it adds exactly 1 to round_counter and changes, besides, only the stored
\* confidence bound of user_id, which is infinite whenever views of user_id is 0.
C7_BidObservesOnly ==
    [][\A b \in DOMAIN user_stats : \A u \in Known(b) :
        \A sampled_ctr \in SampleValues, noise \in NoiseValues :
            Bid(b, u, sampled_ctr, noise) =>
                /\ round_counter'[b] = round_counter[b] + 1
                /\ DOMAIN user_stats'[b] = Known(b)
                /\ \A v \in Known(b) :
                      /\ user_stats'[b][v].clicks = user_stats[b][v].clicks
                      /\ user_stats'[b][v].views = user_stats[b][v].views
                      /\ user_stats'[b][v].ctr = user_stats[b][v].ctr
                      /\ v # u =>
                            user_stats'[b][v].ucb_value = user_stats[b][v].ucb_value
                /\ user_stats'[b][u].views = 0 => user_stats'[b][u].ucb_value.inf
                /\ \A c \in DOMAIN user_stats \ {b} :
                      /\ user_stats'[c] = user_stats[c]
                      /\ round_counter'[c] = round_counter[c]]_vars

\* a bidder that has bid on a user it has views of and on one it has none of
C7_Witness ==
    \E b \in DOMAIN user_stats : \E u, v \in Known(b) :
        /\ round_counter[b] >= 2
        /\ ~user_stats[b][u].ucb_value.inf
        /\ user_stats[b][u].ucb_value.round = round_counter[b]
        /\ user_stats[b][v].views = 0

\* C8: 0 <= clicks <= views for every bidder and user, so the Beta parameters
\* alpha and beta that bid computes are at least 1.
C8_ClicksWithinViews ==
    \A b \in DOMAIN user_stats : \A u \in Known(b) :
        /\ 0 <= user_stats[b][u].clicks
        /\ user_stats[b][u].clicks <= user_stats[b][u].views
        /\ Alpha(user_stats[b][u]) >= 1
        /\ Beta(user_stats[b][u]) >= 1
        /\ raised # "ValueError"

\* every won impression of one user was clicked, none of another; bids made
C8_Witness ==
    \E b \in DOMAIN user_stats : \E u, v \in Known(b) :
        /\ user_stats[b][u].views = 2 /\ user_stats[b][u].clicks = 2
        /\ user_stats[b][v].views = 2 /\ user_stats[b][v].clicks = 0
        /\ round_counter[b] >= 1

\* C9: the stored ctr lies in [0, 1]; it equals clicks/views when views > 0 and
\* is the placeholder 0.5 while views is 0.
C9_EstimatedCtr ==
    \A b \in DOMAIN user_stats : \A u \in Known(b) :
        LET stat == user_stats[b][u] IN
            /\ stat.ctr.den > 0
            /\ 0 <= stat.ctr.num /\ stat.ctr.num <= stat.ctr.den
            /\ stat.views > 0 => stat.ctr.num * stat.views = stat.clicks * stat.ctr.den
            /\ stat.views = 0 => stat.ctr = [num |-> 1, den |-> 2]

\* one click in two views
C9_Witness ==
    \E b \in DOMAIN user_stats : \E u \in Known(b) :
        user_stats[b][u].views = 2 /\ user_stats[b][u].clicks = 1

\* C10: with one bidder and one user who always clicks, every round is won by
\* that bidder at second_price 0, raises its balance by exactly 1, and the
\* bidder stays active.
C10_SoleBidder ==
    \A b \in DOMAIN balances :
        (DOMAIN balances = {b} /\ users = <<1000>>) =>
            /\ bidders = <<b>>
            /\ raised = "none"
            /\ balances[b] = Len(history) * ClickReward * Scale
            /\ \A i \in DOMAIN history :
                  /\ history[i].winner = b
                  /\ history[i].second_price = 0
                  /\ history[i].clicked
                  /\ history[i].balances[b] = i * ClickReward * Scale

\* the sole bidder after two rounds
C10_Witness ==
    /\ Cardinality(DOMAIN balances) = 1
    /\ users = <<1000>>
    /\ Len(history) = 2
    /\ history[2].winning_bid > 0


\* a step in which execute_round returned: it appended its record
RoundCompleted == Len(history') = Len(history) + 1

\* the record of the round that a RoundCompleted step appended
NewRecord == history'[Len(history')]

\* two active bidders and one user that never clicks
TwoBiddersNoClicks == Len(bidders) = 2 /\ users = <<0>>

\* C11 as stated, its safety half: with two bidders and one user of click
\* probability 0.0, the winner of a round pays second_price and its balance
\* is strictly lower after every round it wins.
C11_StrictDecrease ==
    [][(TwoBiddersNoClicks /\ RoundCompleted) =>
          LET w == NewRecord.winner
          IN  /\ balances'[w] = balances[w] - NewRecord.second_price
              /\ balances'[w] < balances[w]]_vars

\* C11: with two bidders and one user of click probability 0.0, the winner
\* of a round pays second_price, so its balance never rises and is strictly
\* lower exactly when second_price is positive (the losing bid may be 0);
\* a winner whose balance falls below -1000 leaves the active list, and no
\* bidder ever enters the active list again.
C11_NoClickPayments ==
    [][(users = <<0>> /\ RoundCompleted) =>
          LET w == NewRecord.winner
          IN  /\ ~NewRecord.clicked
              /\ balances'[w] = balances[w] - NewRecord.second_price
              /\ balances'[w] <= balances[w]
              /\ (balances'[w] < balances[w]) <=> (NewRecord.second_price > 0)
              /\ \A b \in DOMAIN balances \ {w} : balances'[b] = balances[b]
              /\ (balances'[w] < BankruptcyLimit * Scale) => w \notin Range(bidders')
              /\ Range(bidders') \subseteq Range(bidders)]_vars

\* a winner has paid a positive price, been disqualified, and the other
\* bidder has then won a round alone at second_price 0
C11_Witness ==
    /\ users = <<0>>
    /\ Len(history) >= 2
    /\ \E i \in DOMAIN history :
          /\ i < Len(history)
          /\ history[i].second_price > 0
          /\ Cardinality(DOMAIN history[i].bids) = 2
          /\ DisqualifiedAt(i)
          /\ history[i].winner \notin Range(bidders)
          /\ history[Len(history)].winner # history[i].winner
          /\ history[Len(history)].second_price = 0


\* the calls of a round's log that notify bidder b as the winner for user_id
WinnerNotices(log, b, user_id) ==
    {i \in DOMAIN log : log[i] = [op |-> "notify", bidder |-> b,
                                  user_id |-> user_id, auction_winner |-> TRUE]}

\* C12: a round removes from the active list nobody but its winner, and
\* removes the winner if and only if its balance after settlement is
\* strictly below -1000 (exactly -1000 stays); the winner, removed or not,
\* is in that round's bid mapping and is notified as the winner in that
\* round, the other bidders keep their order, and nobody is re-added.
C12_SolvencyCheck ==
    [][/\ Range(bidders') \subseteq Range(bidders)
       /\ RoundCompleted =>
          LET w == NewRecord.winner
          IN  /\ w \in Range(bidders)
              /\ Range(bidders) \ Range(bidders') \subseteq {w}
              /\ (w \notin Range(bidders')) <=> (balances'[w] < BankruptcyLimit * Scale)
              /\ bidders' = IF balances'[w] < BankruptcyLimit * Scale
                            THEN Remove(bidders, w) ELSE bidders
              /\ DOMAIN NewRecord.bids = Range(bidders)
              /\ Cardinality(WinnerNotices(calls', w, NewRecord.user_id)) = 1
              /\ user_stats'[w][NewRecord.user_id].views =
                     user_stats[w][NewRecord.user_id].views + 1]_vars

\* a winner has stayed active at a balance of exactly -1000 and has been
\* removed by a later round, whose bid mapping and winner notice hold it
C12_Witness ==
    /\ history # << >>
    /\ LET last == history[Len(history)]
       IN  /\ DisqualifiedAt(Len(history))
           /\ last.winner \notin Range(bidders)
           /\ last.winner \in DOMAIN last.bids
           /\ WinnerNotices(calls, last.winner, last.user_id) # {}
           /\ \E i \in DOMAIN history :
                 /\ i < Len(history)
                 /\ history[i].winner = last.winner
                 /\ history[i].balances[last.winner] = BankruptcyLimit * Scale


\* C13: a completed round calls bid exactly once on every active bidder, in
\* list order and for the selected user, then notify exactly once on every
\* bidder of the bid mapping, with auction_winner true for the round's winner
\* and nobody else; every bid call comes before every notify call, so the
\* upper confidence value each bid stored is the one computed from the views
\* the bidder had before the round, and each bid is a value a bid call can
\* return whatever the ranking, the price and the click of the round are.
C13_SealedBids ==
    [][RoundCompleted =>
          LET n == Len(bidders)
              u == NewRecord.user_id
          IN  /\ Len(calls') = 2 * n
              /\ \A i \in 1 .. n :
                    /\ calls'[i] = [op |-> "bid", bidder |-> bidders[i],
                                    user_id |-> u, auction_winner |-> FALSE]
                    /\ calls'[n + i] = [op |-> "notify", bidder |-> bidders[i],
                                        user_id |-> u,
                                        auction_winner |-> (bidders[i] = NewRecord.winner)]
              /\ Cardinality({i \in DOMAIN calls' : calls'[i].auction_winner}) = 1
              /\ DOMAIN NewRecord.bids = Range(bidders)
              /\ \A b \in DOMAIN round_counter :
                    round_counter'[b] = round_counter[b] + (IF b \in Range(bidders) THEN 1 ELSE 0)
              /\ \A b \in Range(bidders) :
                    /\ \E s \in SampleValues :
                          user_stats'[b][u].ucb_value =
                              UcbValue(user_stats[b][u], round_counter[b] + 1, s)
                    /\ \E s \in SampleValues, z \in NoiseValues :
                          NewRecord.bids[b] = BidAmount(s, z)]_vars

\* a round between two bidders in which the winner had never been shown
\* before: its views are 1 after the notify call while the value its bid
\* call stored is still the one of a bidder with no views
C13_Witness ==
    /\ Len(history) = 1
    /\ Cardinality(DOMAIN history[1].bids) = 2
    /\ Len(calls) = 4
    /\ LET w == history[1].winner
           u == history[1].user_id
       IN  /\ user_stats[w][u].views = 1
           /\ user_stats[w][u].ucb_value.inf


\* the positions of the active list whose bidders submitted the highest bid
\* of a record
Tied(list, record) ==
    {i \in DOMAIN list : record.bids[list[i]] = Largest(record.bids)}

\* C14: the winner of a round is the bidder that comes first in the active
\* list among those that submitted the highest bid, and when several
\* bidders submitted it second_price equals winning_bid.
C14_TieBreaking ==
    [][RoundCompleted =>
          LET tied == Tied(bidders, NewRecord)
              first == CHOOSE i \in tied : \A j \in tied : i <= j
          IN  /\ NewRecord.winner = bidders[first]
              /\ Cardinality(tied) > 1 =>
                    /\ NewRecord.winning_bid = Largest(NewRecord.bids)
                    /\ NewRecord.second_price = NewRecord.winning_bid]_vars

\* bidder 2 is listed before bidder 1 and has won a round in which both bid
\* the same positive amount
C14_Witness ==
    /\ history # << >>
    /\ LET last == history[Len(history)]
       IN  /\ bidders = <<2, 1>>
           /\ last.bids[1] = last.bids[2]
           /\ last.bids[2] > 0
           /\ last.winner = 2
           /\ last.second_price = last.winning_bid


\* C15: every call of execute_round that returns appends exactly one record
\* at the end of history and a call that raises appends none; every record
\* appended earlier keeps all its fields, its balances snapshot included,
\* and the new record's snapshot is the balances after its own settlement.
C15_AppendOnly ==
    [][/\ \A i \in DOMAIN history : i \in DOMAIN history' /\ history'[i] = history[i]
       /\ IF raised' = "none"
          THEN /\ RoundCompleted
               /\ DOMAIN NewRecord = {"user_id", "bids", "winner", "winning_bid",
                                      "second_price", "clicked", "balances"}
               /\ NewRecord.balances = balances'
          ELSE history' = history]_vars

\* a second round has settled a payment or a reward, and the first record
\* still holds the balances of its own round
C15_Witness ==
    /\ Len(history) = 2
    /\ history[2].balances = balances
    /\ history[1].balances # balances
    /\ history[1].balances[history[1].winner] =
           IF history[1].clicked THEN ClickReward * Scale - history[1].second_price
           ELSE 0 - history[1].second_price


\* C16: in every state reached from balances of 0, every bidder of the
\* active list has a balance of at least -1000; a balance below -1000
\* belongs only to a bidder that is no longer in the list.
C16_ActiveSolvent ==
    /\ \A b \in Range(bidders) : balances[b] >= BankruptcyLimit * Scale
    /\ \A b \in DOMAIN balances :
          balances[b] < BankruptcyLimit * Scale => b \notin Range(bidders)

\* one bidder has fallen below -1000 and is out of the list, the other is
\* still active, and the removed one had stayed active at exactly -1000
C16_Witness ==
    /\ \E b \in DOMAIN balances :
          /\ balances[b] < BankruptcyLimit * Scale
          /\ b \notin Range(bidders)
          /\ \E i \in DOMAIN history :
                history[i].balances[b] = BankruptcyLimit * Scale
    /\ \E b \in Range(bidders) : balances[b] >= BankruptcyLimit * Scale


\* the sum of the values of a function over a finite set of its arguments
RECURSIVE Sum(_, _)
Sum(f, S) ==
    IF S = {} THEN 0
    ELSE LET x == CHOOSE y \in S : TRUE IN f[x] + Sum(f, S \ {x})

\* a bidder's views and clicks counters summed over its users
TotalViews(b) ==
    Sum([u \in DOMAIN user_stats[b] |-> user_stats[b][u].views], DOMAIN user_stats[b])

TotalClicks(b) ==
    Sum([u \in DOMAIN user_stats[b] |-> user_stats[b][u].clicks], DOMAIN user_stats[b])

\* the records of history that bidder b won
Wins(b) == {i \in DOMAIN history : history[i].winner = b}

\* the sum of second_price over the records that bidder b won
Paid(b) == Sum([i \in Wins(b) |-> history[i].second_price], Wins(b))

\* C17: with the bidders driven only by the auction, the views counter of
\* every (bidder, user) pair is the number of records won by that bidder
\* for that user, so each bidder's total views is the number of records it
\* won and the views of all bidders and users sum to the length of history.
C17_ViewsCountWins ==
    /\ \A b \in DOMAIN user_stats :
          /\ \A u \in DOMAIN user_stats[b] :
                user_stats[b][u].views =
                    Cardinality({i \in Wins(b) : history[i].user_id = u})
          /\ TotalViews(b) = Cardinality(Wins(b))
    /\ Sum([b \in DOMAIN user_stats |-> TotalViews(b)], DOMAIN user_stats) = Len(history)

\* two rounds won by different bidders, one of them listed second
C17_Witness ==
    /\ Len(history) = 2
    /\ history[1].winner # history[2].winner
    /\ history[1].user_id # history[2].user_id
    /\ TotalViews(1) = 1
    /\ TotalViews(2) = 1

\* C18: every bidder's balance is the reward of 1 for each click it counted,
\* over all its users, minus the sum of second_price over the records of
\* history that it won.
C18_BalanceAccounts ==
    \A b \in DOMAIN balances :
        balances[b] = ClickReward * Scale * TotalClicks(b) - Paid(b)

\* a bidder that has been clicked once and has paid a positive price in each
\* of two rounds
C18_Witness ==
    \E b \in DOMAIN balances :
        /\ Cardinality(Wins(b)) = 2
        /\ TotalClicks(b) = 1
        /\ \A i \in Wins(b) : history[i].second_price > 0
        /\ balances[b] = ClickReward * Scale - Paid(b)


\* C19: a call of execute_round that raises, for want of an active bidder
\* or because a bid is asked for a user id the bidder has no statistics for,
\* leaves users, balances, the active list and history as they were, has
\* issued no notify call, and has changed no views, clicks or ctr.
C19_FailureAtomic ==
    [][raised' # "none" =>
          /\ raised' \in {"IndexError", "KeyError"}
          /\ (raised' = "IndexError") <=> (bidders = << >>)
          /\ UNCHANGED <<users, bidders, balances, history>>
          /\ \A i \in DOMAIN calls' : calls'[i].op = "bid"
          /\ \A b \in DOMAIN user_stats : \A u \in DOMAIN user_stats[b] :
                /\ user_stats'[b][u].views = user_stats[b][u].views
                /\ user_stats'[b][u].clicks = user_stats[b][u].clicks
                /\ user_stats'[b][u].ctr = user_stats[b][u].ctr]_vars

\* after a round that settled a payment or a reward, a round for user id 1
\* has raised KeyError at the second bidder, the first having bid already
C19_Witness ==
    /\ raised = "KeyError"
    /\ Len(history) = 1
    /\ Len(calls) = 2
    /\ Len(bidders) = 2
    /\ \E b \in DOMAIN balances : balances[b] # 0
    /\ history[1].balances = balances
    /\ round_counter[bidders[1]] = 2

====
